---- MODULE Spec2Model ----
(***************************************************************************)
(* Model of main.py: the in-memory item list `items`, the sample list      *)
(* `fake_db`, and the five path operations that touch them                 *)
(*   POST /items/        create_item                                       *)
(*   GET  /fullItem/     read_items                                        *)
(*   GET  /namePrice/    namePrice                                         *)
(*   GET  /minimalItem/  itemsMinusDescription                             *)
(*   GET  /dbItems/      read_items(start, limit)                          *)
(* Every handler is an `async def` without an await: the event loop runs   *)
(* it from its first statement to its return without switching to another  *)
(* request, so each handler is one action and concurrent requests are the  *)
(* interleavings of these actions.  Request validation (the Item model,    *)
(* the int query parameters) runs before the handler in the same step.     *)
(* Prices are modelled as integers (minor units).                          *)
(***************************************************************************)
EXTENDS Integers, Sequences, FiniteSets, TLC

\* ------------------------------------------------------------------ bounds
MaxItems == 2
MaxBack == 4
MaxStart == 5
MaxLimit == 2

\* ------------------------------------------------- python and JSON values
\* Python values held by an Item instance.
None == [t |-> "none"]
Str(s) == [t |-> "str", v |-> s]
Float(n) == [t |-> "float", v |-> n]

\* JSON values on the wire.
Missing == [j |-> "missing"]
JNull == [j |-> "null"]
JStr(s) == [j |-> "string", s |-> s]
JNum(n) == [j |-> "number", n |-> n]
JArr == [j |-> "array"]

ItemFields == {"name", "description", "price", "tax", "total_price"}

\* Strings python's float() accepts, with their value.
NumericStrings == {"5"}
StrToFloat(s) == CASE s = "5" -> 5

\* Encoding of a python value in a JSON response.
ToJson(v) ==
  CASE v.t = "none" -> JNull
    [] v.t = "str" -> JStr(v.v)
    [] v.t = "float" -> JNum(v.v)

\* ------------------------------------------------------- request inputs
NameInputs == {Missing, JStr("widget"), JArr}
DescriptionInputs == {Missing, JStr("d")}
PriceInputs == {Missing, JNum(5), JStr("5"), JStr("abc")}
TaxInputs == {Missing, JNum(1)}
TotalPriceInputs == {Missing, JNum(7)}

\* The request bodies tried: every combination of the optional fields with a
\* well-formed name and a numeric price, and the bare bodies whose name or
\* price is missing or of the wrong shape.
Bodies ==
  {b \in [name : NameInputs, description : DescriptionInputs,
          price : PriceInputs, tax : TaxInputs,
          total_price : TotalPriceInputs] :
     /\ (b.name # JStr("widget") \/ b.price \in {Missing, JStr("abc")}) =>
          (b.description = Missing /\ b.tax = Missing /\ b.total_price = Missing)
     /\ b.price = JStr("5") => b.description = Missing}

Absent == -MaxBack - 1
StartInputs == ((-MaxBack)..MaxStart) \cup {Absent}
LimitInputs == ((-1)..MaxLimit) \cup {Absent}

\* ------------------------------------------------------------ validation
\* class Item(BaseModel): field validators.  A validator returns the python
\* value, or Invalid.
Invalid == [t |-> "invalid"]

\* Variant: a missing string defaults to None even when the field is required.
validate_str_defaulting(j, required) ==
  CASE j.j = "string" -> Str(j.s)
    [] j.j = "missing" -> None
    [] j.j = "null" -> IF required THEN Invalid ELSE None
    [] OTHER -> Invalid

validate_str(j, required) ==
  CASE j.j = "string" -> Str(j.s)
    [] j.j = "missing" -> IF required THEN Invalid ELSE None
    [] j.j = "null" -> IF required THEN Invalid ELSE None
    [] OTHER -> Invalid

validate_float(j, required) ==
  CASE j.j = "number" -> Float(j.n)
    [] j.j = "string" ->
         IF j.s \in NumericStrings THEN Float(StrToFloat(j.s)) ELSE Invalid
    [] j.j = "missing" -> IF required THEN Invalid ELSE None
    [] j.j = "null" -> IF required THEN Invalid ELSE None
    [] OTHER -> Invalid

Item(body) ==
  [name |-> validate_str(body.name, TRUE),
   description |-> validate_str(body.description, FALSE),
   price |-> validate_float(body.price, TRUE),
   tax |-> validate_float(body.tax, FALSE),
   total_price |-> validate_float(body.total_price, FALSE)]

ItemErrors(body) == {f \in ItemFields : Item(body)[f] = Invalid}

\* ------------------------------------------------------------ create_item
\* Variant: keeps a total_price the caller supplied.
create_item_total_keep_supplied(item) ==
  IF item.tax # None /\ item.total_price = None
    THEN [item EXCEPT !.total_price = Float(item.price.v + item.tax.v)]
    ELSE item

\* if item.tax is not None: item.total_price = item.price + item.tax
create_item_total(item) ==
  IF item.tax # None
    THEN [item EXCEPT !.total_price = Float(item.price.v + item.tax.v)]
    ELSE item

\* Variant: inserts at the front.
items_insert_front(l, x) == <<x>> \o l

\* Variant: the list is rebound to the new record alone (items = [item]).
items_append_losing(l, x) == <<x>>

\* items.append(item)
items_append(l, x) == Append(l, x)

\* ------------------------------------------------------------- responses
\* Serialisation of one model with include / exclude / exclude_none.
serialize_item(it, include, exclude, exclude_none) ==
  LET keep == {f \in (include \ exclude) : exclude_none => it[f] # None}
  IN [f \in keep |-> ToJson(it[f])]

\* "__all__": the field selection is applied to every element of the list.
serialize_list(l, include, exclude, exclude_none) ==
  [i \in 1..Len(l) |-> serialize_item(l[i], include, exclude, exclude_none)]

\* Variant: description is kept as well.
namePrice_include_with_description == {"price", "name", "description"}

namePrice_include == {"price", "name"}

minimalItem_exclude == {"description"}

\* ------------------------------------------------------------- fake_db
SampleDb ==
  << [item_id |-> 1, name |-> "item1"],
     [item_id |-> 2, name |-> "item2"],
     [item_id |-> 3, name |-> "item3"] >>

default_start == 0
default_limit == 10

Max(a, b) == IF a > b THEN a ELSE b
Min(a, b) == IF a < b THEN a ELSE b

\* python's l[lo:hi]
PySlice(l, lo, hi) ==
  LET n == Len(l)
      adj(i) == IF i < 0 THEN Max(i + n, 0) ELSE Min(i, n)
      a == adj(lo)
      b == adj(hi)
  IN [k \in 1..Max(b - a, 0) |-> l[a + k]]

\* Variant: the upper bound is limit, not start + limit.
dbItems_slice_upto_limit(db, start, limit) == PySlice(db, start, limit)

\* fake_db[start : start + limit]
dbItems_slice(db, start, limit) == PySlice(db, start, start + limit)

QueryInt(q, default) == IF q = Absent THEN default ELSE q

\* ------------------------------------------------------------------ state
VARIABLES
  items,      \* the module-level list of Item
  fake_db,    \* the module-level sample list
  last,       \* the last completed exchange: request and response
  createLog   \* history: the records of the successful create_item calls

vars == <<items, fake_db, last, createLog>>

RCreate == "POST /items/"
RFull == "GET /fullItem/"
RNamePrice == "GET /namePrice/"
RMinimal == "GET /minimalItem/"
RDbItems == "GET /dbItems/"
ReadRoutes == {RFull, RNamePrice, RMinimal, RDbItems}

NoBody == [name |-> Missing, description |-> Missing, price |-> Missing,
           tax |-> Missing, total_price |-> Missing]

Exchange(route, body, start, limit, status, content) ==
  [route |-> route, body |-> body, start |-> start, limit |-> limit,
   status |-> status, content |-> content]

Init ==
  /\ items = <<>>
  /\ fake_db = SampleDb
  /\ last = Exchange("none", NoBody, Absent, Absent, 0, <<>>)
  /\ createLog = <<>>

\* POST /items/ with a body that does not validate against Item: 422, the
\* handler does not run.
RequestValidationError ==
  /\ \E body \in Bodies :
       /\ ItemErrors(body) # {}
       /\ last' = Exchange(RCreate, body, Absent, Absent, 422, ItemErrors(body))
  /\ UNCHANGED <<items, fake_db, createLog>>

create_item ==
  /\ Len(items) < MaxItems
  /\ \E body \in Bodies :
       /\ ItemErrors(body) = {}
       /\ LET item == create_item_total(Item(body))
          IN /\ items' = items_append(items, item)
             /\ createLog' = Append(createLog, item)
       /\ last' = Exchange(RCreate, body, Absent, Absent, 200,
                           "successfully added a new item")
  /\ UNCHANGED fake_db

read_items_fullItem ==
  /\ last' = Exchange(RFull, NoBody, Absent, Absent, 200,
                      serialize_list(items, ItemFields, {}, FALSE))
  /\ UNCHANGED <<items, fake_db, createLog>>

\* Variant: the handler clears the hidden field on the stored records.
namePrice_clearing ==
  /\ items' = [i \in 1..Len(items) |->
                 [items[i] EXCEPT !.description = None]]
  /\ last' = Exchange(RNamePrice, NoBody, Absent, Absent, 200,
                      serialize_list(items, namePrice_include, {}, FALSE))
  /\ UNCHANGED <<fake_db, createLog>>

namePrice ==
  /\ last' = Exchange(RNamePrice, NoBody, Absent, Absent, 200,
                      serialize_list(items, namePrice_include, {}, FALSE))
  /\ UNCHANGED <<items, fake_db, createLog>>

itemsMinusDescription ==
  /\ last' = Exchange(RMinimal, NoBody, Absent, Absent, 200,
                      serialize_list(items, ItemFields, minimalItem_exclude, TRUE))
  /\ UNCHANGED <<items, fake_db, createLog>>

\* Variant: the window is taken from the item list.
read_items_dbItems_from_items ==
  /\ \E start \in StartInputs, limit \in LimitInputs :
       last' = Exchange(RDbItems, NoBody, start, limit, 200,
                 dbItems_slice(items, QueryInt(start, default_start),
                               QueryInt(limit, default_limit)))
  /\ UNCHANGED <<items, fake_db, createLog>>

read_items_dbItems ==
  /\ \E start \in StartInputs, limit \in LimitInputs :
       last' = Exchange(RDbItems, NoBody, start, limit, 200,
                 dbItems_slice(fake_db, QueryInt(start, default_start),
                               QueryInt(limit, default_limit)))
  /\ UNCHANGED <<items, fake_db, createLog>>

Next ==
  \/ RequestValidationError
  \/ create_item
  \/ read_items_fullItem
  \/ namePrice
  \/ itemsMinusDescription
  \/ read_items_dbItems

Spec == Init /\ [][Next]_vars

\* ----------------------------------------------------------------- claims
IsPrefix(s, t) == Len(s) <= Len(t) /\ \A i \in 1..Len(s) : s[i] = t[i]

LastItem == items[Len(items)]

\* C1: every stored record whose tax is set has total_price = price + tax,
\* whatever total_price the request carried.
C1_TotalIsPricePlusTax ==
  \A i \in 1..Len(items) :
    items[i].tax # None =>
      items[i].total_price = Float(items[i].price.v + items[i].tax.v)

\* C1 witness: a request with tax 1 and a supplied total_price 7 was stored
\* with total_price 6.
C1_Witness ==
  /\ last.route = RCreate /\ last.status = 200
  /\ last.body.tax = JNum(1) /\ last.body.total_price = JNum(7)
  /\ Len(items) >= 1
  /\ LastItem.tax = Float(1) /\ LastItem.total_price = Float(6)

\* C2 (as claimed): every stored record whose tax is unset has total_price
\* unset.
C2_UnsetTaxUnsetTotal ==
  \A i \in 1..Len(items) :
    items[i].tax = None => items[i].total_price = None

\* C3: the registry only grows, by one record at its end per successful
\* create_item call, stored records never change, and /fullItem/ returns the
\* records of the successful calls in call order.
C3_AppendOnlyInOrder ==
  [][/\ IsPrefix(items, items')
     /\ Len(items') = Len(items) + (IF last'.route = RCreate /\ last'.status = 200
                                      THEN 1 ELSE 0)
     /\ last'.route = RFull =>
          last'.content = [i \in 1..Len(createLog') |->
                             [f \in ItemFields |-> ToJson(createLog'[i][f])]]
    ]_vars

\* C3 witness: /fullItem/ returned two different records.
C3_Witness ==
  /\ last.route = RFull
  /\ Len(last.content) = 2
  /\ last.content[1] # last.content[2]

WinStart == QueryInt(last.start, default_start)
WinLimit == QueryInt(last.limit, default_limit)
SampleLen == Len(SampleDb)

\* C4 (as claimed): for all integers start and limit, negative ones included,
\* /dbItems/ succeeds and returns the records of the sample whose offsets lie
\* in start .. start + limit - 1, out-of-range offsets being clamped away:
\* none when start >= length, the remaining ones when start + limit exceeds
\* the length, and never more than limit records when limit >= 0.
C4_WindowForAllIntegers ==
  last.route = RDbItems =>
    LET r == last.content
        from == Min(Max(WinStart, 0), SampleLen)
        upto == Min(Max(WinStart + WinLimit, 0), SampleLen)
    IN /\ last.status = 200
       /\ r = [k \in 1..Max(upto - from, 0) |-> SampleDb[from + k]]
       /\ WinLimit >= 0 => Len(r) <= WinLimit
       /\ WinStart >= SampleLen => r = <<>>

\* C4 (amended): /dbItems/ always succeeds and returns a contiguous run of the
\* sample; for start >= 0 and limit >= 0 the run begins at offset start and
\* has min(limit, max(length - start, 0)) records; (0, 10) gives the three
\* records and (5, 10) gives none.
C4_WindowNonNegative ==
  last.route = RDbItems =>
    LET r == last.content
    IN /\ last.status = 200
       /\ \E a \in 0..SampleLen :
            \A k \in 1..Len(r) : a + k <= SampleLen /\ r[k] = SampleDb[a + k]
       /\ (WinStart >= 0 /\ WinLimit >= 0) =>
            /\ Len(r) = Min(WinLimit, Max(SampleLen - WinStart, 0))
            /\ \A k \in 1..Len(r) : r[k] = SampleDb[WinStart + k]
       /\ (WinStart = 0 /\ WinLimit = 10) => r = SampleDb
       /\ (WinStart = 5 /\ WinLimit = 10) => r = <<>>

\* C4 witness: a window starting inside the sample and cut off by its end.
C4_Witness ==
  /\ last.route = RDbItems
  /\ WinStart = 2 /\ WinLimit = 2
  /\ last.content = <<SampleDb[3]>>

MinimalFieldsIffSet ==
  last.route = RMinimal =>
    /\ Len(last.content) = Len(items)
    /\ \A i \in 1..Len(items) :
         /\ "description" \notin DOMAIN last.content[i]
         /\ \A f \in {"name", "price", "tax", "total_price"} :
              /\ f \in DOMAIN last.content[i] <=> items[i][f] # None
              /\ f \in DOMAIN last.content[i] =>
                   last.content[i][f] = ToJson(items[i][f])

\* C6 (as claimed): the field rule of /minimalItem/, and for a stored record
\* whose tax is unset the output omits description, tax and total_price.
C6_MinimalItem ==
  /\ MinimalFieldsIffSet
  /\ last.route = RMinimal =>
       \A i \in 1..Len(items) :
         items[i].tax = None =>
           DOMAIN last.content[i] \cap {"description", "tax", "total_price"} = {}

\* The shapes the Item model accepts, read off the request body.
IsText(j) == j.j = "string"
IsNumeric(j) == j.j = "number" \/ (j.j = "string" /\ j.s \in NumericStrings)
IsUnset(j) == j.j \in {"missing", "null"}
WellFormed(b) ==
  /\ IsText(b.name)
  /\ IsNumeric(b.price)
  /\ IsUnset(b.description) \/ IsText(b.description)
  /\ IsUnset(b.tax) \/ IsNumeric(b.tax)
  /\ IsUnset(b.total_price) \/ IsNumeric(b.total_price)

C8_ReadsChangeNothing ==
  [][last'.route \in ReadRoutes => (items' = items /\ fake_db' = fake_db)]_vars

\* C8 witness: a projection answered while a stored record has a description.
C8_Witness ==
  /\ last.route \in {RNamePrice, RMinimal}
  /\ Len(items) = 2
  /\ items[1].description # None

\* C9: the sample collection never changes, and /dbItems/ answers from it as
\* in the initial state however many records were created.
C9_WindowReadsSampleOnly ==
  /\ fake_db = SampleDb
  /\ last.route = RDbItems =>
       last.content = PySlice(SampleDb, WinStart, WinStart + WinLimit)

\* C9 witness: /dbItems/ returned sample records with the registry not empty.
C9_Witness ==
  /\ last.route = RDbItems
  /\ Len(items) >= 1
  /\ Len(last.content) = 3

\* C10: no append is lost (the registry holds one record per successful
\* create_item) and no read returns a record with tax set whose total_price
\* is unset or differs from price + tax.
C10_NoLostAppendNoPartialRecord ==
  /\ Len(items) = Len(createLog)
  /\ last.route \in {RFull, RMinimal} =>
       \A i \in 1..Len(last.content) :
         LET o == last.content[i]
         IN ("tax" \in DOMAIN o /\ o.tax # JNull) =>
              /\ "total_price" \in DOMAIN o
              /\ o.total_price = JNum(o.price.n + o.tax.n)

\* C10 witness: a read returned two records, one of them with tax set.
C10_Witness ==
  /\ last.route = RFull
  /\ Len(last.content) = 2
  /\ Len(createLog) = 2
  /\ last.content[2].tax = JNum(1)

====
